---------------------------- MODULE Spec2Model ----------------------------
(***************************************************************************)
(* Model of the ratio-panel pipeline (src/src/load_data.py) and of the     *)
(* AR(1) estimator (src/src/ar_model.py), configured by src/src/config.py. *)
(*                                                                         *)
(* Floating point numbers are modelled as exact extended rationals: a      *)
(* value is a pair <<n, d>> with d >= 0 in lowest terms; <<0, 0>> is NaN,  *)
(* <<1, 0>> is +inf and <<-1, 0>> is -inf.  Rounding is not modelled.      *)
(***************************************************************************)
EXTENDS Integers, Sequences, FiniteSets, TLC

VARIABLES
    pc,                \* position of the modelled call
    error,             \* exception that ended the call ("" when none)
    exists,            \* file system: [source -> set of tickers with a CSV there]
    profiles,          \* file system: [ticker -> profile CSV]
    tickers,           \* build_ratio_panel: local `tickers`
    sector_map,        \* build_ratio_panel: local `sector_map`
    idx,               \* build_ratio_panel: position of the `for ticker` loop
    ticker,            \* build_ratio_panel: loop variable `ticker`
    files,             \* the three CSV files read in the current iteration
    sources,           \* build_ratio_panel: local `sources` (also the argument dfs)
    complete,          \* value returned by _is_complete
    complete_tickers,  \* build_ratio_panel: local `complete_tickers`
    all_ratios,        \* build_ratio_panel: local `all_ratios`
    ratios,            \* value returned by _compute_ratios
    raw_panel,         \* the panel handed to winsorize_panel (before clipping)
    panel,             \* the panel (returned by build_ratio_panel / winsorize_panel)
    passes,            \* number of winsorize_panel applications so far
    features,          \* estimate_ar_features: the feature table (list `results`)
    design,            \* _fit_ar1_on_diff: the (response, regressor) rows of each fit
    kept_rows          \* _load_source: the rows of df after line 103, per source

vars == <<pc, error, exists, profiles, tickers, sector_map, idx, ticker, files,
          sources, complete, complete_tickers, all_ratios, ratios, raw_panel,
          panel, passes, features, design, kept_rows>>

-----------------------------------------------------------------------------
(* Bounds of the model *)

\* number of calendar years of the canonical window (25 in config.py)
NumYears == 1

\* longest ratio series handed to the AR(1) estimator
SeriesLen == 8

\* largest number of rows of a panel handed to winsorize_panel directly
MaxRows == 3

\* largest number of rows missing from the three source tables of one company
MaxMissing == 2

\* largest number of records of a CSV file handed to _load_source directly
MaxRecords == 3

-----------------------------------------------------------------------------
(* Extended rational arithmetic (numpy float64 semantics without rounding) *)

NaN == <<0, 0>>
Inf == <<1, 0>>
NegInf == <<-1, 0>>

Abs(i) == IF i < 0 THEN -i ELSE i

Sgn(i) == IF i < 0 THEN -1 ELSE IF i = 0 THEN 0 ELSE 1

RECURSIVE GCD(_, _)
GCD(a, b) == IF b = 0 THEN a ELSE GCD(b, a % b)

\* the value n/d for integers n, d (d = 0 gives NaN or an infinity)
Norm(n, d) ==
    IF d = 0 THEN <<Sgn(n), 0>>
    ELSE LET g == GCD(Abs(n), Abs(d))
             s == Sgn(d)
         IN  <<(s * n) \div g, (s * d) \div g>>

Num(i) == <<i, 1>>

IsNaN(v) == v = NaN
IsInf(v) == v[2] = 0 /\ v[1] # 0
IsFinite(v) == v[2] > 0
NotNa(v) == ~IsNaN(v)

Neg(a) == <<-a[1], a[2]>>

Add(a, b) ==
    IF IsNaN(a) \/ IsNaN(b) THEN NaN
    ELSE IF IsInf(a) /\ IsInf(b) THEN (IF a = b THEN a ELSE NaN)
    ELSE IF IsInf(a) THEN a
    ELSE IF IsInf(b) THEN b
    ELSE Norm(a[1] * b[2] + b[1] * a[2], a[2] * b[2])

Sub(a, b) == Add(a, Neg(b))

Mul(a, b) ==
    IF IsNaN(a) \/ IsNaN(b) THEN NaN
    ELSE IF a[2] = 0 \/ b[2] = 0 THEN <<Sgn(a[1]) * Sgn(b[1]), 0>>
    ELSE Norm(a[1] * b[1], a[2] * b[2])

\* a / b as numpy divides floats: x/0 is +-inf, 0/0 is NaN
Div(a, b) ==
    IF IsNaN(a) \/ IsNaN(b) THEN NaN
    ELSE LET aa == IF b[1] < 0 THEN Neg(a) ELSE a
             bb == IF b[1] < 0 THEN Neg(b) ELSE b
         IN  Norm(aa[1] * bb[2], aa[2] * bb[1])

\* a < b; every comparison with NaN is false
Less(a, b) ==
    IF IsNaN(a) \/ IsNaN(b) THEN FALSE
    ELSE IF IsInf(a) \/ IsInf(b) THEN
        (a # b) /\ (a = NegInf \/ b = Inf)
    ELSE a[1] * b[2] < b[1] * a[2]

Leq(a, b) == NotNa(a) /\ NotNa(b) /\ (a = b \/ Less(a, b))

-----------------------------------------------------------------------------
(* config.py *)

YEAR_START == 2000

\* 2024 in config.py; the window is scaled down to NumYears years
YEAR_END == YEAR_START + NumYears - 1

EXPECTED_QUARTERS == (YEAR_END - YEAR_START + 1) * 4

EXCLUDED_SECTORS == {"Financial Services", "Banks", "Insurance"}

\* SRC_DIRS without "profile"
Sources == {"income", "balance", "cashflow"}

RatioDef(name, ncol, nsrc, dcol, dsrc) ==
    [name |-> name, numerator_col |-> ncol, numerator_src |-> nsrc,
     denominator_col |-> dcol, denominator_src |-> dsrc]

RATIOS ==
    << RatioDef("ROA", "netIncome", "income", "totalAssets", "balance"),
       RatioDef("ROE", "netIncome", "income", "totalStockholderEquity", "balance"),
       RatioDef("EBIT_margin", "ebit", "income", "totalRevenue", "income"),
       RatioDef("fcf_margin", "freeCashFlow", "cashflow", "totalRevenue", "income"),
       RatioDef("current_ratio", "totalCurrentAssets", "balance",
                "totalCurrentLiabilities", "balance"),
       RatioDef("debt_to_equity", "shortLongTermDebtTotal", "balance",
                "totalStockholderEquity", "balance"),
       RatioDef("equity_ratio", "totalStockholderEquity", "balance",
                "totalAssets", "balance") >>

RATIO_NAMES == [i \in 1..Len(RATIOS) |-> RATIOS[i].name]

RatioNameSet == {RATIO_NAMES[i] : i \in 1..Len(RATIO_NAMES)}

AR_ORDER == 1

DIFF_ORDER == 1

\* (0.01, 0.99)
WINSORIZE_QUANTILES == << <<1, 100>>, <<99, 100>> >>

-----------------------------------------------------------------------------
(* Calendar: pandas Period ordinals of frequency "Q" and their labels *)

\* the Period of quarter k of a year, as its ordinal (1970Q1 is 0)
PeriodOf(year, k) == (year - 1970) * 4 + (k - 1)

PeriodYear(p) == 1970 + (p \div 4)

PeriodQuarter(p) == (p % 4) + 1

\* df["date"].dt.to_period("Q")
ToPeriodQ(date) == PeriodOf(date.year, ((date.month - 1) \div 3) + 1)

\* str(Period), e.g. "2013Q2", as the triple <<2013, "Q", 2>>
PeriodStr(p) == <<PeriodYear(p), "Q", PeriodQuarter(p)>>

\* order of the labels as strings (four-digit years)
LabelLess(a, b) == a[1] < b[1] \/ (a[1] = b[1] /\ a[3] < b[3])

\* pd.period_range(start, end, freq="Q") with both ends included
PeriodRange(first, last) == [i \in 1..(last - first + 1) |-> first + i - 1]

_build_expected_quarters ==
    PeriodRange(PeriodOf(YEAR_START, 1), PeriodOf(YEAR_END, 4))

EXPECTED_QTR_INDEX == _build_expected_quarters

SeqSet(s) == {s[i] : i \in 1..Len(s)}

-----------------------------------------------------------------------------
(* 3. _load_source: one CSV file of one ticker                              *)
(*                                                                         *)
(* A CSV file is [kind, rows]: kind "zero_bytes" (no bytes at all),        *)
(* "no_date_column", or "rows" (a header with a date column and the        *)
(* records rows, possibly none).  A record is [date, cols]: date is the    *)
(* text of the date field, [ok, year, month, day] (ok = FALSE: text that   *)
(* pd.to_datetime cannot parse), cols maps each data column to the text    *)
(* of its field, [num, val] (num = FALSE: text that is no number).         *)
(***************************************************************************)

\* the data columns of a source file that the ratio definitions read
Columns(src) ==
    {RATIOS[i].numerator_col : i \in {j \in 1..Len(RATIOS) : RATIOS[j].numerator_src = src}}
    \cup
    {RATIOS[i].denominator_col : i \in {j \in 1..Len(RATIOS) : RATIOS[j].denominator_src = src}}

\* pd.to_numeric(errors="coerce") of one field
ToNumeric(field) == IF field.num THEN field.val ELSE NaN

\* order of two parsed dates
DateKey(date) == date.year * 10000 + date.month * 100 + date.day

\* sort_values("date"): ascending, records of equal date keep their order
RECURSIVE InsertByDate(_, _)
InsertByDate(sorted, rec) ==
    IF sorted = << >> THEN <<rec>>
    ELSE IF DateKey(sorted[Len(sorted)].date) <= DateKey(rec.date)
         THEN Append(sorted, rec)
         ELSE Append(InsertByDate(SubSeq(sorted, 1, Len(sorted) - 1), rec),
                     sorted[Len(sorted)])

RECURSIVE SortByDate(_)
SortByDate(rows) ==
    IF rows = << >> THEN << >>
    ELSE InsertByDate(SortByDate(SubSeq(rows, 1, Len(rows) - 1)), rows[Len(rows)])

DropDuplicatesKeepFirst(rows) ==
    SelectSeq([i \in 1..Len(rows) |-> [rec |-> rows[i], pos |-> i]],
              LAMBDA e : \A j \in 1..(e.pos - 1) :
                            ToPeriodQ(rows[j].date) # ToPeriodQ(e.rec.date))

\* drop_duplicates(subset=["quarter"], keep="last")
DropDuplicatesKeepLast(rows) ==
    SelectSeq([i \in 1..Len(rows) |-> [rec |-> rows[i], pos |-> i]],
              LAMBDA e : \A j \in (e.pos + 1)..Len(rows) :
                            ToPeriodQ(rows[j].date) # ToPeriodQ(e.rec.date))

\* the value of "no table": _load_source returned None
None == [kind |-> "None", data |-> << >>]

\* read_csv raised pandas.errors.EmptyDataError (a file of zero bytes)
Raised(exc) == [kind |-> exc, data |-> << >>]

\* lines 93-97: the records whose date is readable and lies in the window
InRange(file) ==
    SelectSeq(file.rows, LAMBDA r : /\ r.date.ok
                                    /\ r.date.year >= YEAR_START
                                    /\ r.date.year <= YEAR_END)

\* lines 104-111: the table of the retained rows, indexed by quarter, with
\* the data columns made numeric.  A table is
\* [kind |-> "df", data |-> [Period -> [column -> value]]]; the domain of
\* data is the index of the DataFrame.
TableOf(kept, src) ==
    LET index    == {ToPeriodQ(kept[i].rec.date) : i \in 1..Len(kept)}
        RowOf(q) == (CHOOSE i \in 1..Len(kept) : ToPeriodQ(kept[i].rec.date) = q)
    IN  [kind |-> "df",
         data |-> [q \in index |->
                     [c \in Columns(src) |-> ToNumeric(kept[RowOf(q)].rec.cols[c])]]]

\* lines 77-113, with the sort of line 103 leaving records of equal date in
\* the order of the file
_load_source(present, file, src) ==
    IF ~present THEN None
    ELSE IF file.kind = "zero_bytes" THEN Raised("EmptyDataError")
    ELSE IF file.kind = "no_date_column" \/ Len(file.rows) = 0 THEN None
    ELSE TableOf(DropDuplicatesKeepLast(SortByDate(InRange(file))), src)

-----------------------------------------------------------------------------
(* 4. Completeness gate *)

\* EXPECTED_QTR_INDEX.isin(df.index).all()
IsinAll(index) == \A i \in 1..Len(EXPECTED_QTR_INDEX) : EXPECTED_QTR_INDEX[i] \in index

IsinAny(index) == \E i \in 1..Len(EXPECTED_QTR_INDEX) : EXPECTED_QTR_INDEX[i] \in index

_is_complete_any(dfs) ==
    \A src \in DOMAIN dfs :
        /\ dfs[src].kind # "None"
        /\ IsinAny(DOMAIN dfs[src].data)

_is_complete(dfs) ==
    \A src \in DOMAIN dfs :
        /\ dfs[src].kind # "None"
        /\ IsinAll(DOMAIN dfs[src].data)

-----------------------------------------------------------------------------
(* 5. Ratio computation *)

\* den.replace(0, np.nan)
ReplaceZero(v) == IF IsFinite(v) /\ v[1] = 0 THEN NaN ELSE v

\* one element of num / den.replace(0, np.nan), aligned on the quarter
RatioAtNoReplace(srcs, r, q) ==
    LET num == srcs[r.numerator_src].data
        den == srcs[r.denominator_src].data
    IN  IF q \in DOMAIN num /\ q \in DOMAIN den
        THEN Div(num[q][r.numerator_col], den[q][r.denominator_col])
        ELSE NaN

RatioAt(srcs, r, q) ==
    LET num == srcs[r.numerator_src].data
        den == srcs[r.denominator_src].data
    IN  IF q \in DOMAIN num /\ q \in DOMAIN den
        THEN Div(num[q][r.numerator_col], ReplaceZero(den[q][r.denominator_col]))
        ELSE NaN

\* (a frame that keeps only the quarters whose first ratio is not missing)
_compute_ratios_dropna(srcs) ==
    LET keep == SelectSeq(EXPECTED_QTR_INDEX,
                          LAMBDA q : NotNa(RatioAt(srcs, RATIOS[1], q)))
    IN  [index |-> keep,
         data  |-> [i \in 1..Len(keep) |->
                      [n \in RatioNameSet |->
                          RatioAt(srcs,
                                  RATIOS[CHOOSE k \in 1..Len(RATIOS) : RATIOS[k].name = n],
                                  keep[i])]]]

\* The result frame: index is EXPECTED_QTR_INDEX, one column per ratio;
\* data[i] is the row of index[i].
_compute_ratios(srcs) ==
    [index |-> EXPECTED_QTR_INDEX,
     data  |-> [i \in 1..Len(EXPECTED_QTR_INDEX) |->
                  [n \in RatioNameSet |->
                      RatioAt(srcs,
                              RATIOS[CHOOSE k \in 1..Len(RATIOS) : RATIOS[k].name = n],
                              EXPECTED_QTR_INDEX[i])]]]

-----------------------------------------------------------------------------
(* 6. Winsorisation                                                         *)
(*                                                                         *)
(* A panel is a sequence of rows [ticker, quarter, vals]: quarter is the   *)
(* label of the quarter, vals maps each ratio name to its value.           *)
(***************************************************************************)

RECURSIVE InsertByValue(_, _)
InsertByValue(sorted, v) ==
    IF sorted = << >> THEN <<v>>
    ELSE IF Leq(sorted[Len(sorted)], v)
         THEN Append(sorted, v)
         ELSE Append(InsertByValue(SubSeq(sorted, 1, Len(sorted) - 1), v),
                     sorted[Len(sorted)])

RECURSIVE SortValues(_)
SortValues(s) ==
    IF s = << >> THEN << >>
    ELSE InsertByValue(SortValues(SubSeq(s, 1, Len(s) - 1)), s[Len(s)])

\* Series.quantile(q): linear interpolation between the order statistics of
\* the non-missing values; NaN when there is none
Quantile(series, q) ==
    LET x == SortValues(SelectSeq(series, NotNa))
        m == Len(x)
        h == (m - 1) * q[1]
        i == h \div q[2]
        g == Norm(h % q[2], q[2])
        a == x[i + 1]
        b == x[IF i + 2 <= m THEN i + 2 ELSE m]
    IN  IF m = 0 THEN NaN ELSE Add(a, Mul(g, Sub(b, a)))

\* Series.clip(lower, upper) of one value; a NaN bound does not clip
ClipLowerOnly(v, lower, upper) ==
    IF IsNaN(v) THEN v
    ELSE IF Less(v, lower) THEN lower
    ELSE v

Clip(v, lower, upper) ==
    IF IsNaN(v) THEN v
    ELSE IF Less(v, lower) THEN lower
    ELSE IF Less(upper, v) THEN upper
    ELSE v

_clip_col(series) ==
    LET lower == Quantile(series, WINSORIZE_QUANTILES[1])
        upper == Quantile(series, WINSORIZE_QUANTILES[2])
    IN  [i \in 1..Len(series) |-> Clip(series[i], lower, upper)]

\* panel[col]
Column(p, col) == [i \in 1..Len(p) |-> p[i].vals[col]]

\* the rows of one ticker, in panel order
RowsOf(p, t) == SelectSeq(p, LAMBDA row : row.ticker = t)

\* the position of row i of the panel among the rows of its ticker
RankInTicker(p, i) == Cardinality({j \in 1..i : p[j].ticker = p[i].ticker})

winsorize_per_ticker(p) ==
    LET clipped == [t \in {p[i].ticker : i \in 1..Len(p)} |->
                      [c \in RatioNameSet |-> _clip_col(Column(RowsOf(p, t), c))]]
    IN  [i \in 1..Len(p) |->
            [p[i] EXCEPT !.vals =
                [c \in RatioNameSet |-> clipped[p[i].ticker][c][RankInTicker(p, i)]]]]

winsorize_panel(p) ==
    LET clipped == [c \in RatioNameSet |-> _clip_col(Column(p, c))]
    IN  [i \in 1..Len(p) |->
            [p[i] EXCEPT !.vals = [c \in RatioNameSet |-> clipped[c][i]]]]

-----------------------------------------------------------------------------
(* 1./2. Ticker universe and sector filter *)

\* the file stems of the model's file system, in sorted order
Tickers == <<"AAA", "BBB", "CCC">>

TickerSet == SeqSet(Tickers)

\* sorted(set of tickers)
Sorted(set) == SelectSeq(Tickers, LAMBDA t : t \in set)

\* sets[0].intersection(*sets[1:]), sorted
get_ticker_universe(fs) == Sorted({t \in TickerSet : \A src \in Sources : t \in fs[src]})

\* A profile CSV is [kind, symbol, sector]: kind "absent" (no file),
\* "unreadable" (read_csv raises), "empty" (no record) or "ok".
load_sector_map(prof) ==
    LET ok == {t \in DOMAIN prof : prof[t].kind = "ok"}
    IN  [sym \in {prof[t].symbol : t \in ok} |->
            prof[CHOOSE t \in ok : prof[t].symbol = sym].sector]

\* sector_map.get(t, "")
SectorOf(smap, t) == IF t \in DOMAIN smap THEN smap[t] ELSE ""

filter_sectors_keep_all(ts, smap) == ts

filter_sectors(ts, smap) ==
    SelectSeq(ts, LAMBDA t : SectorOf(smap, t) \notin EXCLUDED_SECTORS)

-----------------------------------------------------------------------------
(* The CSV files the model reads *)

\* the text of a date inside quarter p: day d of month m (1..3) of the quarter
DateIn(p, m, d) == [ok |-> TRUE, year |-> PeriodYear(p),
                    month |-> 3 * (PeriodQuarter(p) - 1) + m, day |-> d]

BaseValue(src) == IF src = "income" THEN 1 ELSE IF src = "balance" THEN 4 ELSE 2

\* the record of a filing for quarter p, every field holding the number v
Filing(src, p, m, d, v) ==
    [date |-> DateIn(p, m, d),
     cols |-> [c \in Columns(src) |-> [num |-> TRUE, val |-> v]]]

\* the complete file of a source: one filing per expected quarter
FullFile(src) ==
    [kind |-> "rows",
     rows |-> [i \in 1..Len(EXPECTED_QTR_INDEX) |->
                  Filing(src, EXPECTED_QTR_INDEX[i], 2, 15,
                         Num(BaseValue(src) + PeriodQuarter(EXPECTED_QTR_INDEX[i])))]]

FirstQ == PeriodOf(YEAR_START, 1)

LastQ == PeriodOf(YEAR_END, 4)

\* the files of a source that differ from the complete file in one respect
\* and leave a row for every expected quarter
ValueVariants(src) ==
    LET full == FullFile(src)
        n    == Len(full.rows)
    IN  IF src = "income"
        \* a later filing of the first quarter, first in the file
        THEN {[full EXCEPT !.rows = <<Filing(src, FirstQ, 3, 1, Num(8))>> \o @]}
        \* a record whose fields are zero
        ELSE IF src = "balance"
        THEN {[full EXCEPT !.rows[n].cols =
                    [c \in Columns(src) |-> [num |-> TRUE, val |-> Num(0)]]]}
        \* a record whose fields are no numbers
        ELSE {[full EXCEPT !.rows[1].cols =
                    [c \in Columns(src) |-> [num |-> FALSE, val |-> NaN]]]}

FileVariants(src) ==
    LET full == FullFile(src)
        n    == Len(full.rows)
    IN  {full,
         [kind |-> "zero_bytes", rows |-> << >>],
         [kind |-> "no_date_column", rows |-> full.rows],
         [kind |-> "rows", rows |-> << >>],
         \* a filing of the year before the window, one of the year after it
         [full EXCEPT !.rows = <<Filing(src, FirstQ - 1, 2, 15, Num(9))>> \o @],
         [full EXCEPT !.rows = Append(@, Filing(src, LastQ + 1, 2, 15, Num(9)))],
         \* an earlier filing of the first quarter, last in the file
         [full EXCEPT !.rows = Append(@, Filing(src, FirstQ, 1, 28, Num(7)))],
         \* a filing with an unreadable date
         [full EXCEPT !.rows[n].date.ok = FALSE]}
        \cup ValueVariants(src)
        \cup
        \* one quarter without a filing
        {[full EXCEPT !.rows = SelectSeq(@, LAMBDA r : ToPeriodQ(r.date) # q)] :
            q \in SeqSet(EXPECTED_QTR_INDEX)}

\* the three files of one ticker: at most one of them differs from the complete file
TickerFiles ==
    UNION {{[src \in Sources |-> IF src = bad THEN f ELSE FullFile(src)] :
                f \in FileVariants(bad)} : bad \in Sources}

\* what the file system holds for one ticker: the directories with a CSV of
\* it, and its profile
Setups ==
    {"plain", "technology", "banks", "insurance", "no_cashflow_csv"}

SetupDirs(su) ==
    IF su = "no_cashflow_csv" THEN Sources \ {"cashflow"} ELSE Sources

Profile(kind, symbol, sector) == [kind |-> kind, symbol |-> symbol, sector |-> sector]

SetupProfile(t, su) ==
    IF su = "technology" THEN Profile("ok", t, "Technology")
    ELSE IF su = "banks" THEN Profile("ok", t, "Banks")
    ELSE IF su = "insurance" THEN Profile("ok", t, "Insurance")
    ELSE Profile("absent", "", "")

-----------------------------------------------------------------------------
(* build_ratio_panel *)

NoFrame == [ticker |-> "", index |-> << >>, data |-> << >>]

NoSources == [src \in Sources |-> None]

NoKept == [src \in Sources |-> << >>]

NoFiles == [src \in Sources |-> [kind |-> "rows", rows |-> << >>]]

\* pd.concat(all_ratios).reset_index() with the quarter as its label
RECURSIVE Concat(_)
Concat(frames) ==
    IF frames = << >> THEN << >>
    ELSE LET f == frames[Len(frames)]
         IN  Concat(SubSeq(frames, 1, Len(frames) - 1)) \o
             [i \in 1..Len(f.index) |->
                 [ticker |-> f.ticker, quarter |-> PeriodStr(f.index[i]),
                  vals |-> f.data[i]]]

InitPanel ==
    /\ Len(EXPECTED_QTR_INDEX) = EXPECTED_QUARTERS      \* the assert of lines 129-131
    /\ \E su \in [TickerSet -> Setups] :
          /\ exists = [src \in Sources |-> {t \in TickerSet : src \in SetupDirs(su[t])}]
          /\ profiles = [t \in TickerSet |-> SetupProfile(t, su[t])]
    /\ pc = "start"
    /\ error = ""
    /\ tickers = << >>
    /\ sector_map = << >>
    /\ idx = 0
    /\ ticker = ""
    /\ files = NoFiles
    /\ sources = NoSources
    /\ complete = FALSE
    /\ complete_tickers = << >>
    /\ all_ratios = << >>
    /\ ratios = NoFrame
    /\ raw_panel = << >>
    /\ panel = << >>
    /\ passes = 0
    /\ features = << >>
    /\ design = << >>
    /\ kept_rows = NoKept

\* lines 197-208: universe, sector map, sector filter, empty lists
Start ==
    /\ pc = "start"
    /\ sector_map' = load_sector_map(profiles)
    /\ tickers' = filter_sectors(get_ticker_universe(exists), sector_map')
    /\ complete_tickers' = << >>
    /\ all_ratios' = << >>
    /\ idx' = 1
    /\ pc' = "loop"
    /\ UNCHANGED <<kept_rows, error, exists, profiles, ticker, files, sources, complete, ratios,
                   raw_panel, panel, passes, features, design>>

\* what one iteration reads from the files fs of a ticker that has a CSV in
\* every source directory: the three tables, the gate and the ratio frame
Load(fs) ==
    LET loaded == [src \in Sources |-> _load_source(TRUE, fs[src], src)]
    IN  [files |-> fs, sources |-> loaded, complete |-> _is_complete(loaded),
         frame |-> _compute_ratios(loaded)]

TickerLoads == {Load(fs) : fs \in TickerFiles}

\* lines 210-224: one iteration of `for ticker in tickers`
LoadTicker ==
    /\ pc = "loop"
    /\ idx <= Len(tickers)
    /\ \E ld \in TickerLoads :
          LET t      == tickers[idx]
              loaded == IF \A src \in Sources : t \in exists[src]
                        THEN ld.sources
                        ELSE [src \in Sources |->
                                _load_source(t \in exists[src], ld.files[src], src)]
              raised == {src \in Sources : loaded[src].kind \notin {"None", "df"}}
          IN  /\ ticker' = t
              /\ files' = ld.files
              /\ IF raised # {}
                 THEN /\ pc' = "failed"
                      /\ error' = loaded[CHOOSE src \in raised : TRUE].kind
                      /\ UNCHANGED <<idx, sources, complete, ratios, complete_tickers,
                                     all_ratios>>
                 ELSE /\ sources' = loaded
                      /\ complete' = _is_complete(loaded)
                      /\ IF complete'
                         THEN /\ ratios' = [ticker |-> t,
                                            index |-> _compute_ratios(loaded).index,
                                            data |-> _compute_ratios(loaded).data]
                              /\ complete_tickers' = Append(complete_tickers, t)
                              /\ all_ratios' = Append(all_ratios, ratios')
                         ELSE UNCHANGED <<ratios, complete_tickers, all_ratios>>
                      /\ idx' = idx + 1
                      /\ UNCHANGED <<pc, error>>
    /\ UNCHANGED <<kept_rows, exists, profiles, tickers, sector_map, raw_panel, panel, passes,
                   features, design>>

\* line 226: the loop is over; its locals are dead from here on
EndLoop ==
    /\ pc = "loop"
    /\ idx > Len(tickers)
    /\ pc' = "concat"
    /\ ticker' = ""
    /\ files' = NoFiles
    /\ sources' = NoSources
    /\ complete' = FALSE
    /\ ratios' = NoFrame
    /\ UNCHANGED <<kept_rows, error, exists, profiles, tickers, sector_map, idx, complete_tickers,
                   all_ratios, raw_panel, panel, passes, features, design>>

\* lines 229-249: the fatal error, or concat, winsorize and return
Finish ==
    /\ pc = "concat"
    /\ IF all_ratios = << >>
       THEN /\ pc' = "failed"
            /\ error' = "RuntimeError"
            /\ UNCHANGED <<raw_panel, panel>>
       ELSE /\ raw_panel' = Concat(all_ratios)
            /\ panel' = winsorize_panel(raw_panel')
            /\ pc' = "done"
            /\ UNCHANGED error
    /\ UNCHANGED <<kept_rows, exists, profiles, tickers, sector_map, idx, ticker, files, sources,
                   complete, complete_tickers, all_ratios, ratios, passes, features,
                   design>>

NextPanel == Start \/ LoadTicker \/ EndLoop \/ Finish

PanelSpec == InitPanel /\ [][NextPanel]_vars

-----------------------------------------------------------------------------
(* _is_complete applied to the three tables of one company (GateSpec) *)

\* the subsets of S with at most k elements
RECURSIVE SubsetsUpTo(_, _)
SubsetsUpTo(S, k) ==
    IF k = 0 THEN {{}}
    ELSE LET smaller == SubsetsUpTo(S, k - 1)
         IN  smaller \cup {A \cup {x} : A \in smaller, x \in S}

\* the table _load_source returns for a file with one filing in every quarter of index
TableOver(src, index) ==
    [kind |-> "df",
     data |-> [q \in index |-> [c \in Columns(src) |-> Num(BaseValue(src))]]]

\* three tables of which those in absent are None and the rows in missing
\* (pairs of a source and an expected quarter) are not there
TablesWithout(absent, missing) ==
    [src \in Sources |->
        IF src \in absent THEN None
        ELSE TableOver(src, {q \in SeqSet(EXPECTED_QTR_INDEX) : <<src, q>> \notin missing})]

InitGate ==
    /\ Len(EXPECTED_QTR_INDEX) = EXPECTED_QUARTERS      \* the assert of lines 129-131
    /\ \E absent \in SUBSET Sources :
          \E missing \in SubsetsUpTo((Sources \ absent) \X SeqSet(EXPECTED_QTR_INDEX),
                                     MaxMissing) :
              sources = TablesWithout(absent, missing)
    /\ pc = "call"
    /\ error = ""
    /\ exists = [src \in Sources |-> {}]
    /\ profiles = << >>
    /\ tickers = << >>
    /\ sector_map = << >>
    /\ idx = 0
    /\ ticker = ""
    /\ files = NoFiles
    /\ complete = FALSE
    /\ complete_tickers = << >>
    /\ all_ratios = << >>
    /\ ratios = NoFrame
    /\ raw_panel = << >>
    /\ panel = << >>
    /\ passes = 0
    /\ features = << >>
    /\ design = << >>
    /\ kept_rows = NoKept

\* lines 134-141
IsComplete ==
    /\ pc = "call"
    /\ complete' = _is_complete(sources)
    /\ pc' = "returned"
    /\ UNCHANGED <<kept_rows, error, exists, profiles, tickers, sector_map, idx, ticker, files,
                   sources, complete_tickers, all_ratios, ratios, raw_panel, panel,
                   passes, features, design>>

NextGate == IsComplete

GateSpec == InitGate /\ [][NextGate]_vars

-----------------------------------------------------------------------------
(* _compute_ratios applied to the three tables of one company (RatioSpec) *)

\* the numbers a field of a source table can hold after pd.to_numeric
FieldValues == {NaN, Num(0), Num(1), Num(-2), Inf}

\* columns that are a numerator only, a denominator only, or both
NumeratorOnly ==
    {"netIncome", "ebit", "freeCashFlow", "totalCurrentAssets", "shortLongTermDebtTotal"}

DenominatorOnly == {"totalAssets", "totalRevenue", "totalCurrentLiabilities"}

\* complete tables whose row of quarter q0 holds a in the numerator columns,
\* b in the denominator columns and c in totalStockholderEquity
TablesWith(q0, a, b, c) ==
    [src \in Sources |->
        [kind |-> "df",
         data |-> [q \in SeqSet(EXPECTED_QTR_INDEX) |->
                     [col \in Columns(src) |->
                        IF q # q0 THEN Num(BaseValue(src))
                        ELSE IF col \in NumeratorOnly THEN a
                        ELSE IF col \in DenominatorOnly THEN b
                        ELSE c]]]]

InitRatio ==
    /\ Len(EXPECTED_QTR_INDEX) = EXPECTED_QUARTERS      \* the assert of lines 129-131
    /\ \E q0 \in SeqSet(EXPECTED_QTR_INDEX), a \in FieldValues, b \in FieldValues,
          c \in FieldValues :
              sources = TablesWith(q0, a, b, c)
    /\ pc = "call"
    /\ error = ""
    /\ exists = [src \in Sources |-> {}]
    /\ profiles = << >>
    /\ tickers = << >>
    /\ sector_map = << >>
    /\ idx = 0
    /\ ticker = ""
    /\ files = NoFiles
    /\ complete = TRUE
    /\ complete_tickers = << >>
    /\ all_ratios = << >>
    /\ ratios = NoFrame
    /\ raw_panel = << >>
    /\ panel = << >>
    /\ passes = 0
    /\ features = << >>
    /\ design = << >>
    /\ kept_rows = NoKept

\* lines 147-165
ComputeRatios ==
    /\ pc = "call"
    /\ ratios' = [ticker |-> "", index |-> _compute_ratios(sources).index,
                  data |-> _compute_ratios(sources).data]
    /\ pc' = "returned"
    /\ UNCHANGED <<kept_rows, error, exists, profiles, tickers, sector_map, idx, ticker, files,
                   sources, complete, complete_tickers, all_ratios, raw_panel, panel,
                   passes, features, design>>

NextRatio == ComputeRatios

RatioSpec == InitRatio /\ [][NextRatio]_vars

-----------------------------------------------------------------------------
(* winsorize_panel applied to a panel, once and again (WinsorSpec) *)

WinsorValuesA == {NaN, Num(0), Num(3), Num(10)}

WinsorValuesB == {NaN, Num(0), Num(10)}

\* a panel of n rows, alternately of two tickers, whose ratio columns hold
\* colA (ROA, EBIT_margin, current_ratio, equity_ratio) or colB (the others)
PanelOf(n, colA, colB) ==
    [i \in 1..n |->
        [ticker  |-> IF i % 2 = 1 THEN "AAA" ELSE "BBB",
         quarter |-> PeriodStr(FirstQ + ((i - 1) \div 2)),
         vals    |-> [c \in RatioNameSet |->
                        IF c \in {"ROA", "EBIT_margin", "current_ratio", "equity_ratio"}
                        THEN colA[i] ELSE colB[i]]]]

InitWinsor ==
    /\ \E n \in 1..MaxRows :
          \E colA \in [1..n -> WinsorValuesA], colB \in [1..n -> WinsorValuesB] :
              panel = PanelOf(n, colA, colB)
    /\ raw_panel = << >>
    /\ passes = 0
    /\ pc = "call"
    /\ error = ""
    /\ exists = [src \in Sources |-> {}]
    /\ profiles = << >>
    /\ tickers = << >>
    /\ sector_map = << >>
    /\ idx = 0
    /\ ticker = ""
    /\ files = NoFiles
    /\ sources = NoSources
    /\ complete = FALSE
    /\ complete_tickers = << >>
    /\ all_ratios = << >>
    /\ ratios = NoFrame
    /\ features = << >>
    /\ design = << >>
    /\ kept_rows = NoKept

\* lines 171-186; raw_panel keeps the panel as it was handed in
Winsorize ==
    /\ passes < 2
    /\ raw_panel' = panel
    /\ panel' = winsorize_panel(panel)
    /\ passes' = passes + 1
    /\ UNCHANGED <<kept_rows, pc, error, exists, profiles, tickers, sector_map, idx, ticker, files,
                   sources, complete, complete_tickers, all_ratios, ratios, features,
                   design>>

NextWinsor == Winsorize

WinsorSpec == InitWinsor /\ [][NextWinsor]_vars

-----------------------------------------------------------------------------
(* ar_model.py: estimate_ar_features on a panel (ARSpec)                     *)
(*                                                                         *)
(* A series is a sequence of [q, v]: the quarter label and the level Y.    *)

RECURSIVE Sum(_)
Sum(s) == IF s = << >> THEN Num(0) ELSE Add(Sum(SubSeq(s, 1, Len(s) - 1)), s[Len(s)])

Values(s) == [i \in 1..Len(s) |-> s[i].v]

Products(a, b) == [i \in 1..Len(a) |-> Mul(a[i], b[i])]

\* series.diff(DIFF_ORDER).dropna(): the differences keep the label of their
\* later quarter, the missing ones are dropped
DiffDropna(series) ==
    LET d == [i \in 1..Len(series) |->
                [q |-> series[i].q,
                 v |-> IF i <= DIFF_ORDER THEN NaN
                       ELSE Sub(series[i].v, series[i - DIFF_ORDER].v)]]
    IN  SelectSeq(d, LAMBDA e : NotNa(e.v))

\* diff.shift(k): the values move down k positions, the labels stay
Shift(diff, k) ==
    [i \in 1..Len(diff) |->
        [q |-> diff[i].q, v |-> IF i <= k THEN NaN ELSE diff[i - k].v]]

\* diff.iloc[k:]
ILocFrom(diff, k) == SubSeq(diff, k + 1, Len(diff))

\* diff.std(ddof=1) squared; NaN for a single value
Variance(vals) ==
    LET n  == Len(vals)
        sv == Sum(vals)
    IN  Div(Sub(Mul(Num(n), Sum(Products(vals, vals))), Mul(sv, sv)), Num(n * (n - 1)))

\* s[mask]
Masked(s, mask) ==
    LET kept == SelectSeq([i \in 1..Len(s) |-> i], LAMBDA i : mask[i])
    IN  [k \in 1..Len(kept) |-> s[kept[k]]]

\* sigma_diff < 1e-15 for sigma_diff squared: the differences of the model
\* are whole numbers, whose standard deviation is either 0 or far above the
\* threshold
SigmaBelowThreshold(sigma_diff_sq) == ~Less(Num(0), sigma_diff_sq)

\* the sign of np.log(r) for r >= 0, standing for its value: -inf at 0,
\* negative below 1, 0 at 1, positive above
LogSign(r) ==
    IF IsNaN(r) THEN NaN
    ELSE IF r = Num(0) THEN NegInf
    ELSE IF r = Inf THEN Inf
    ELSE IF Less(r, Num(1)) THEN Num(-1)
    ELSE IF r = Num(1) THEN Num(0)
    ELSE Num(1)

AbsValue(r) == IF NotNa(r) /\ r[1] < 0 THEN Neg(r) ELSE r

HalfLifeAbsOnly(phi1) ==
    IF Less(AbsValue(phi1), Num(1))
    THEN Div(LogSign(<<1, 2>>), LogSign(AbsValue(phi1)))
    ELSE NaN

\* lines 84-87; the quotient of the two logarithms is kept as the quotient of
\* their signs
HalfLife(phi1) ==
    IF Less(Num(0), phi1) /\ Less(phi1, Num(1))
    THEN Div(LogSign(<<1, 2>>), LogSign(AbsValue(phi1)))
    ELSE NaN

\* sm.add_constant(x) with has_constant='skip': a column that is one
\* non-zero constant counts as the constant and x is returned alone
AddConstantSkips(x) ==
    /\ \A i \in 1..Len(x) : x[i] = x[1]
    /\ x[1] # Num(0)

\* sm.OLS(y, X).fit().params for X = [1, x]: the least-squares line, or the
\* pseudo-inverse solution [mean(y), 0] when x is all zero
OLSParams(y, x) ==
    LET n   == Num(Len(y))
        sx  == Sum(x)
        sy  == Sum(y)
        sxx == Sub(Mul(n, Sum(Products(x, x))), Mul(sx, sx))
        sxy == Sub(Mul(n, Sum(Products(x, y))), Mul(sx, sy))
        b   == IF sxx = Num(0) THEN Num(0) ELSE Div(sxy, sxx)
    IN  <<Div(Sub(sy, Mul(b, sx)), n), b>>

\* lines 57-63: the quarters of the difference used as response and of the
\* difference whose value is its regressor
RegressionPairs(series) ==
    LET diff == DiffDropna(series)
    IN  [i \in 1..(Len(diff) - AR_ORDER) |-> <<diff[i + AR_ORDER].q, diff[i].q>>]

\* lines 33-98: None, a raised IndexError (model.params[1] of a fit with the
\* single column add_constant returned), or the dict of estimates
_fit_ar1_on_diff(series) ==
    LET diff  == DiffDropna(series)
        ys    == ILocFrom(diff, AR_ORDER)
        xs    == ILocFrom(Shift(diff, AR_ORDER), AR_ORDER)
        mask  == [i \in 1..Len(ys) |-> NotNa(ys[i].v) /\ NotNa(xs[i].v)]
        y     == Values(Masked(ys, mask))
        x     == Values(Masked(xs, mask))
        n_obs == Len(y)
        sigma_diff_sq == Variance(Values(diff))
        params == OLSParams(y, x)
    IN  IF Len(diff) < AR_ORDER + 3 THEN None
        ELSE IF SigmaBelowThreshold(sigma_diff_sq) THEN None
        ELSE IF n_obs < AR_ORDER + 3 THEN None
        ELSE IF AddConstantSkips(x) THEN Raised("IndexError")
        ELSE [kind |-> "fit",
              data |-> [phi1 |-> params[2], c |-> params[1],
                        sigma_diff_sq |-> sigma_diff_sq,
                        half_life |-> HalfLife(params[2]), n_obs |-> n_obs]]

\* df.set_index("quarter").sort_index(): a stable sort on the quarter
RECURSIVE InsertByQuarter(_, _)
InsertByQuarter(sorted, row) ==
    IF sorted = << >> THEN <<row>>
    ELSE IF LabelLess(row.quarter, sorted[Len(sorted)].quarter)
         THEN Append(InsertByQuarter(SubSeq(sorted, 1, Len(sorted) - 1), row),
                     sorted[Len(sorted)])
         ELSE Append(sorted, row)

RECURSIVE SortIndex(_)
SortIndex(rows) ==
    IF rows = << >> THEN << >>
    ELSE InsertByQuarter(SortIndex(SubSeq(rows, 1, Len(rows) - 1)), rows[Len(rows)])

\* line 117: panel[panel["ticker"] == ticker].set_index("quarter").sort_index()
TickerFrame(p, t) == SortIndex(RowsOf(p, t))

\* line 120: df_t[ratio]
SeriesOf(df_t, ratio) ==
    [i \in 1..Len(df_t) |-> [q |-> df_t[i].quarter, v |-> df_t[i].vals[ratio]]]

\* lines 122-129: the outcome of one (ticker, ratio) pair of the loop
PairOutcome(df_t, ratio) ==
    LET series  == SeriesOf(df_t, ratio)
        n_valid == Cardinality({i \in 1..Len(series) : NotNa(series[i].v)})
    IN  IF n_valid < AR_ORDER + DIFF_ORDER + 3 THEN None
        ELSE _fit_ar1_on_diff(series)

\* the pairs in the order of the two loops of lines 116-119
PairsInOrder(p) ==
    LET ts == Sorted({p[i].ticker : i \in 1..Len(p)})
    IN  [k \in 1..(Len(ts) * Len(RATIO_NAMES)) |->
            <<ts[((k - 1) \div Len(RATIO_NAMES)) + 1],
              RATIO_NAMES[((k - 1) % Len(RATIO_NAMES)) + 1]>>]

\* the levels 0, inc[1], inc[1] + inc[2], ... of a series of n quarters
RECURSIVE Levels(_, _)
Levels(n, inc) ==
    IF n = 1 THEN <<0>>
    ELSE LET before == Levels(n - 1, inc)
         IN  Append(before, before[n - 1] + inc[n - 1])

\* the rows of ticker t over n quarters from FirstQ, latest quarter first:
\* ROA holds the levels, but nothing in quarter number miss; the other
\* ratios are missing throughout
TickerRows(t, n, levels, miss) ==
    [i \in 1..n |->
        [ticker  |-> t,
         quarter |-> PeriodStr(FirstQ + (n - i)),
         vals    |-> [c \in RatioNameSet |->
                        IF c = "ROA" /\ (n - i + 1) # miss
                        THEN Num(levels[n - i + 1]) ELSE NaN]]]

\* the increments of the second ticker: 1, 2, 1, 2, ...
SecondIncrements == [i \in 1..SeriesLen |-> 1 + ((i - 1) % 2)]

Increments == {0, 1, 2}

\* the panels of the model: one ticker with a value in every quarter, with
\* none in its first or in its fourth quarter, or two tickers
Shapes == {"plain", "first_missing", "fourth_missing", "two_tickers"}

MissingAt(shape) ==
    IF shape = "first_missing" THEN 1 ELSE IF shape = "fourth_missing" THEN 4 ELSE 0

InitAR ==
    /\ \E n \in (SeriesLen - 3)..SeriesLen :
          \E inc \in [1..(n - 1) -> Increments], shape \in Shapes :
              panel = (IF shape = "two_tickers"
                       THEN TickerRows("BBB", n, Levels(n, SecondIncrements), 0)
                       ELSE << >>)
                      \o TickerRows("AAA", n, Levels(n, inc), MissingAt(shape))
    /\ pc = "call"
    /\ error = ""
    /\ features = << >>
    /\ design = << >>
    /\ kept_rows = NoKept
    /\ exists = [src \in Sources |-> {}]
    /\ profiles = << >>
    /\ tickers = << >>
    /\ sector_map = << >>
    /\ idx = 0
    /\ ticker = ""
    /\ files = NoFiles
    /\ sources = NoSources
    /\ complete = FALSE
    /\ complete_tickers = << >>
    /\ all_ratios = << >>
    /\ ratios = NoFrame
    /\ raw_panel = << >>
    /\ passes = 0

\* lines 104-138: the loop over the pairs stops at the first IndexError; the
\* log call of lines 134-136 raises KeyError on a table without rows
estimate_ar_features(p) ==
    LET pairs   == PairsInOrder(p)
        df      == [t \in {p[i].ticker : i \in 1..Len(p)} |-> TickerFrame(p, t)]
        outcome == [k \in 1..Len(pairs) |-> PairOutcome(df[pairs[k][1]], pairs[k][2])]
        fitted  == SelectSeq([k \in 1..Len(pairs) |-> k],
                             LAMBDA k : outcome[k].kind = "fit")
    IN  IF \E k \in 1..Len(pairs) : outcome[k].kind = "IndexError"
        THEN [kind |-> "IndexError", features |-> << >>, design |-> << >>]
        ELSE IF fitted = << >>
        THEN [kind |-> "KeyError", features |-> << >>, design |-> << >>]
        ELSE [kind |-> "df",
              features |-> [j \in 1..Len(fitted) |->
                              [ticker |-> pairs[fitted[j]][1],
                               ratio  |-> pairs[fitted[j]][2],
                               fit    |-> outcome[fitted[j]].data]],
              design |-> [j \in 1..Len(fitted) |->
                            RegressionPairs(SeriesOf(df[pairs[fitted[j]][1]],
                                                     pairs[fitted[j]][2]))]]

EstimateARFeatures ==
    /\ pc = "call"
    /\ \E result \in {estimate_ar_features(panel)} :
          /\ pc' = IF result.kind = "df" THEN "done" ELSE "failed"
          /\ error' = IF result.kind = "df" THEN "" ELSE result.kind
          /\ features' = result.features
          /\ design' = result.design
    /\ UNCHANGED <<kept_rows, exists, profiles, tickers, sector_map, idx, ticker, files, sources,
                   complete, complete_tickers, all_ratios, ratios, raw_panel, panel,
                   passes>>

NextAR == EstimateARFeatures

ARSpec == InitAR /\ [][NextAR]_vars

-----------------------------------------------------------------------------
(* _load_source applied to one CSV file of one ticker (LoadSpec) *)

\* the dates of the records: three days of the first quarter, one of the
\* second, one of the year before and one of the year after the window, and
\* a text that is no date
RecordDates ==
    {DateIn(FirstQ, 1, 28), DateIn(FirstQ, 2, 15), DateIn(FirstQ, 3, 1),
     DateIn(FirstQ + 1, 2, 15), DateIn(FirstQ - 1, 2, 15), DateIn(LastQ + 1, 2, 15),
     [DateIn(FirstQ, 2, 15) EXCEPT !.ok = FALSE]}

\* a file whose i-th record has the date dates[i] and the number i in every field
RecordFile(src, dates) ==
    [kind |-> "rows",
     rows |-> [i \in 1..Len(dates) |->
                 [date |-> dates[i],
                  cols |-> [c \in Columns(src) |-> [num |-> TRUE, val |-> Num(i)]]]]]

\* the ways to put a record into a sequence ascending by date that keep it so
InsertionsByDate(sorted, rec) ==
    {SubSeq(sorted, 1, p) \o <<rec>> \o SubSeq(sorted, p + 1, Len(sorted)) :
        p \in {q \in 0..Len(sorted) :
                  /\ q = 0 \/ DateKey(sorted[q].date) <= DateKey(rec.date)
                  /\ q = Len(sorted) \/ DateKey(rec.date) <= DateKey(sorted[q + 1].date)}}

\* df.sort_values("date") with the default quicksort: ascending by date,
\* records of equal date in any order
RECURSIVE SortOutcomes(_)
SortOutcomes(rows) ==
    IF rows = << >> THEN {<< >>}
    ELSE UNION {InsertionsByDate(sorted, rows[Len(rows)]) :
                   sorted \in SortOutcomes(SubSeq(rows, 1, Len(rows) - 1))}

\* lines 77-113 for one outcome of the sort of line 103: the value returned
\* and the rows retained by drop_duplicates
LoadOutcome(present, file, src, sorted) ==
    IF ~present THEN [table |-> None, kept |-> << >>]
    ELSE IF file.kind = "zero_bytes"
    THEN [table |-> Raised("EmptyDataError"), kept |-> << >>]
    ELSE IF file.kind = "no_date_column" \/ Len(file.rows) = 0
    THEN [table |-> None, kept |-> << >>]
    ELSE [table |-> TableOf(DropDuplicatesKeepLast(sorted), src),
          kept  |-> DropDuplicatesKeepLast(sorted)]

\* one ticker with a file in at most one source directory
InitLoad ==
    /\ \E src \in Sources :
          \E file \in {[kind |-> "zero_bytes", rows |-> << >>],
                       [kind |-> "no_date_column", rows |-> FullFile(src).rows],
                       [kind |-> "rows", rows |-> << >>]}
                      \cup {RecordFile(src, dates) :
                               dates \in UNION {[1..n -> RecordDates] : n \in 1..MaxRecords}} :
              \E present \in BOOLEAN :
                  /\ files = [s \in Sources |-> IF s = src /\ present THEN file ELSE NoFiles[s]]
                  /\ exists = [s \in Sources |-> IF s = src /\ present THEN {"AAA"} ELSE {}]
    /\ ticker = "AAA"
    /\ pc = "call"
    /\ error = ""
    /\ sources = NoSources
    /\ kept_rows = NoKept
    /\ profiles = << >>
    /\ tickers = << >>
    /\ sector_map = << >>
    /\ idx = 0
    /\ complete = FALSE
    /\ complete_tickers = << >>
    /\ all_ratios = << >>
    /\ ratios = NoFrame
    /\ raw_panel = << >>
    /\ panel = << >>
    /\ passes = 0
    /\ features = << >>
    /\ design = << >>

\* _load_source(ticker, src) for each of the three sources (lines 77-113)
LoadSource ==
    /\ pc = "call"
    /\ \E income \in SortOutcomes(InRange(files["income"])),
          balance \in SortOutcomes(InRange(files["balance"])),
          cashflow \in SortOutcomes(InRange(files["cashflow"])) :
          LET sorted == [s \in Sources |->
                           IF s = "income" THEN income
                           ELSE IF s = "balance" THEN balance ELSE cashflow]
          IN  \E outcome \in {[s \in Sources |->
                                LoadOutcome(ticker \in exists[s], files[s], s, sorted[s])]} :
                IF \E s \in Sources : outcome[s].table.kind = "EmptyDataError"
                THEN /\ pc' = "failed"
                     /\ error' = "EmptyDataError"
                     /\ UNCHANGED <<sources, kept_rows>>
                ELSE /\ pc' = "returned"
                     /\ sources' = [s \in Sources |-> outcome[s].table]
                     /\ kept_rows' = [s \in Sources |-> outcome[s].kept]
                     /\ UNCHANGED error
    /\ UNCHANGED <<exists, profiles, tickers, sector_map, idx, ticker, files, complete,
                   complete_tickers, all_ratios, ratios, raw_panel, panel, passes,
                   features, design>>

NextLoad == LoadSource

LoadSpec == InitLoad /\ [][NextLoad]_vars

-----------------------------------------------------------------------------
(* Properties of the panel pipeline (PanelSpec) *)

\* the canonical quarters Q1 of YEAR_START .. Q4 of YEAR_END, as (year, quarter)
CanonicalQuarters == {<<y, k>> : y \in YEAR_START..YEAR_END, k \in 1..4}

CanonicalLabels == {<<yk[1], "Q", yk[2]>> : yk \in CanonicalQuarters}

PanelTickers(p) == {p[i].ticker : i \in 1..Len(p)}

\* C2: in the returned panel every ticker has each canonical quarter exactly
\* once and no other quarter; so has every ratio frame collected so far,
\* whatever the input and however many tickers have been processed.
C2_PanelQuartersCanonical ==
    /\ \A k \in 1..Len(all_ratios) :
          /\ {PeriodStr(q) : q \in SeqSet(all_ratios[k].index)} = CanonicalLabels
          /\ Len(all_ratios[k].index) = Cardinality(CanonicalLabels)
    /\ pc = "done" =>
          \A t \in PanelTickers(panel) :
              /\ {row.quarter : row \in SeqSet(RowsOf(panel, t))} = CanonicalLabels
              /\ Len(RowsOf(panel, t)) = Cardinality(CanonicalLabels)

C2_Witness ==
    /\ pc = "done"
    /\ Cardinality(PanelTickers(panel)) >= 2
    /\ \E i \in 1..Len(panel) : IsNaN(panel[i].vals["ROA"])

\* the sector label the profile of ticker t gives ("" when it gives none)
ProfileSector(t) == IF profiles[t].kind = "ok" /\ profiles[t].symbol = t
                    THEN profiles[t].sector ELSE ""

\* a CSV file has a record with a readable date in every canonical quarter
FileCovers(file) ==
    /\ file.kind = "rows"
    /\ \A yk \in CanonicalQuarters :
          \E i \in 1..Len(file.rows) :
              /\ file.rows[i].date.ok
              /\ file.rows[i].date.year = yk[1]
              /\ ((file.rows[i].date.month - 1) \div 3) + 1 = yk[2]

\* C3: a ticker is in the panel only if it has a CSV in all three source
\* directories, its sector is not excluded and its three files cover every
\* canonical quarter; the ticker just processed has passed exactly if its
\* three files cover every canonical quarter; the returned panel holds
\* exactly the tickers that passed.
C3_PanelMembership ==
    /\ \A t \in SeqSet(complete_tickers) \cup PanelTickers(panel) :
          /\ \A src \in Sources : t \in exists[src]
          /\ ProfileSector(t) \notin EXCLUDED_SECTORS
          /\ \E k \in 1..(idx - 1) : tickers[k] = t
    /\ (pc = "loop" /\ idx > 1) =>
          /\ ticker = tickers[idx - 1]
          /\ (ticker \in SeqSet(complete_tickers)
                <=> \A src \in Sources : FileCovers(files[src]))
    /\ pc = "done" => PanelTickers(panel) = SeqSet(complete_tickers)

C3_Witness ==
    /\ pc = "loop"
    /\ idx > 1
    /\ complete_tickers # << >>
    /\ ticker \notin SeqSet(complete_tickers)
    /\ FileCovers(files["income"])
    /\ FileCovers(files["balance"])
    /\ files["cashflow"].kind = "rows"
    /\ Len(files["cashflow"].rows) = EXPECTED_QUARTERS - 1
    /\ \E t \in TickerSet :
          /\ \A src \in Sources : t \in exists[src]
          /\ ProfileSector(t) \in EXCLUDED_SECTORS

\* C4 (as claimed): the run ends with a fatal error exactly if no ticker
\* survives the completeness filter; no single ticker's source is fatal.
C4_FatalOnlyWithoutSurvivors ==
    /\ pc = "failed" =>
          /\ error = "RuntimeError"
          /\ idx > Len(tickers)
          /\ complete_tickers = << >>
    /\ pc = "done" => complete_tickers # << >>

-----------------------------------------------------------------------------
(* Properties of the completeness gate (GateSpec) *)

\* all three tables are there and each has a row for every canonical quarter
AllPresentAndCovered(dfs) ==
    \A src \in Sources :
        /\ dfs[src].kind = "df"
        /\ \A yk \in CanonicalQuarters : PeriodOf(yk[1], yk[2]) \in DOMAIN dfs[src].data

\* dfs without the row of quarter q in the table of src
WithoutRow(dfs, src, q) ==
    [dfs EXCEPT ![src].data = [p \in (DOMAIN @) \ {q} |-> @[p]]]

\* C1: _is_complete returns true exactly if all three tables are present and
\* each has a row for every canonical quarter; for a company that passes,
\* removing any one canonical quarter from any one table makes it false.
C1_GateIffCovered ==
    pc = "returned" =>
        /\ complete <=> AllPresentAndCovered(sources)
        /\ complete =>
              \A src \in Sources, yk \in CanonicalQuarters :
                  ~_is_complete(WithoutRow(sources, src, PeriodOf(yk[1], yk[2])))

C1_Witness ==
    /\ pc = "returned"
    /\ complete
    /\ \A src \in Sources : Cardinality(DOMAIN sources[src].data) = EXPECTED_QUARTERS

-----------------------------------------------------------------------------
(* Properties of the ratio computation (RatioSpec) *)

RatioByName(n) == RATIOS[CHOOSE k \in 1..Len(RATIOS) : RATIOS[k].name = n]

\* the numerator and the denominator field of ratio n in the quarter of row i
NumeratorField(n, i) ==
    sources[RatioByName(n).numerator_src].data[ratios.index[i]][RatioByName(n).numerator_col]

DenominatorField(n, i) ==
    sources[RatioByName(n).denominator_src].data[ratios.index[i]][RatioByName(n).denominator_col]

\* C7 (as claimed): a zero denominator gives a missing ratio, and no ratio
\* value is ever infinite.
C7_NeverInfinite ==
    pc = "returned" =>
        \A i \in 1..Len(ratios.index), n \in RatioNameSet :
            /\ DenominatorField(n, i) = Num(0) => IsNaN(ratios.data[i][n])
            /\ ~IsInf(ratios.data[i][n])

\* C7 (amended): a zero denominator gives a missing ratio, never an infinite
\* one; a ratio value is infinite only where the denominator is a non-zero
\* number and the numerator field is itself infinite.
C7_ZeroDenominatorMissing ==
    pc = "returned" =>
        \A i \in 1..Len(ratios.index), n \in RatioNameSet :
            /\ DenominatorField(n, i) = Num(0) => IsNaN(ratios.data[i][n])
            /\ IsInf(ratios.data[i][n]) =>
                  /\ IsFinite(DenominatorField(n, i))
                  /\ DenominatorField(n, i) # Num(0)
                  /\ IsInf(NumeratorField(n, i))

C7_Witness ==
    /\ pc = "returned"
    /\ \E i \in 1..Len(ratios.index) :
          /\ DenominatorField("ROA", i) = Num(0)
          /\ NumeratorField("ROA", i) = Num(1)
          /\ IsNaN(ratios.data[i]["ROA"])

-----------------------------------------------------------------------------
(* Properties of the winsorizer (WinsorSpec) *)

\* p is a least (greatest) non-missing value of the series
IsMin(series, v) ==
    /\ \E i \in 1..Len(series) : series[i] = v /\ NotNa(v)
    /\ \A i \in 1..Len(series) : NotNa(series[i]) => Leq(v, series[i])

IsMax(series, v) ==
    /\ \E i \in 1..Len(series) : series[i] = v /\ NotNa(v)
    /\ \A i \in 1..Len(series) : NotNa(series[i]) => Leq(series[i], v)

\* the percentiles of a column pooled over all rows of the panel
P1(p, c) == Quantile(Column(p, c), <<1, 100>>)

P99(p, c) == Quantile(Column(p, c), <<99, 100>>)

-----------------------------------------------------------------------------
(* Properties of the AR(1) estimator (ARSpec) *)

\* C8: for every emitted estimate, half_life is a number if and only if
\* 0 < phi1 < 1, and then it is strictly positive; otherwise it is NaN.
C8_HalfLifeOnlyForMeanReversion ==
    pc = "done" =>
        \A j \in 1..Len(features) :
            LET phi1      == features[j].fit.phi1
                half_life == features[j].fit.half_life
            IN  /\ NotNa(half_life) <=> (Less(Num(0), phi1) /\ Less(phi1, Num(1)))
                /\ NotNa(half_life) => (IsFinite(half_life) /\ Less(Num(0), half_life))

\* a table with a mean-reverting estimate and one with phi1 <= 0
C8_Witness ==
    /\ pc = "done"
    /\ \E j, k \in 1..Len(features) :
          /\ Less(Num(0), features[j].fit.phi1)
          /\ Less(features[j].fit.phi1, Num(1))
          /\ Less(Num(0), features[j].fit.half_life)
          /\ Leq(features[k].fit.phi1, Num(0))
          /\ IsNaN(features[k].fit.half_life)

\* the number of the quarter of a label
Ordinal(label) == PeriodOf(label[1], label[3])

\* the quarters in which ticker t has a value of the ratio
NonMissing(t, ratio) ==
    {Ordinal(panel[i].quarter) : i \in {i \in 1..Len(panel) :
        panel[i].ticker = t /\ NotNa(panel[i].vals[ratio])}}

LevelAt(t, ratio, q) ==
    panel[CHOOSE i \in 1..Len(panel) :
              panel[i].ticker = t /\ Ordinal(panel[i].quarter) = q].vals[ratio]

\* the quarters t with a first difference Y(t) - Y(t-1)
DiffQuarters(t, ratio) == {q \in NonMissing(t, ratio) : (q - DIFF_ORDER) \in NonMissing(t, ratio)}

DiffAt(t, ratio, q) == Sub(LevelAt(t, ratio, q), LevelAt(t, ratio, q - DIFF_ORDER))

\* the quarters t in which both the difference of t and that of t-1 exist
AlignedQuarters(t, ratio) ==
    {q \in DiffQuarters(t, ratio) : (q - AR_ORDER) \in DiffQuarters(t, ratio)}

NoSkipCondition(t, ratio) ==
    /\ Cardinality(NonMissing(t, ratio)) >= AR_ORDER + DIFF_ORDER + 3
    /\ Cardinality(DiffQuarters(t, ratio)) >= AR_ORDER + 3
    /\ \E q1, q2 \in DiffQuarters(t, ratio) : DiffAt(t, ratio, q1) # DiffAt(t, ratio, q2)
    /\ Cardinality(AlignedQuarters(t, ratio)) >= AR_ORDER + 3

RowsFor(t, ratio) ==
    {j \in 1..Len(features) : features[j].ticker = t /\ features[j].ratio = ratio}

\* C9: a (ticker, ratio) pair has a row in the feature table if and only if
\* no skip condition triggers (at least 5 values, at least 4 differences, a
\* standard deviation of the differences that is not zero, at least 4 aligned
\* regression observations); every row has n_obs >= 4 and no pair has two rows.
C9_RowIffNoSkip ==
    pc \in {"done", "failed"} =>
        /\ \A t \in {panel[i].ticker : i \in 1..Len(panel)}, ratio \in RatioNameSet :
              /\ (pc = "done" /\ RowsFor(t, ratio) # {}) <=> NoSkipCondition(t, ratio)
              /\ Cardinality(RowsFor(t, ratio)) <= 1
        /\ \A j \in 1..Len(features) : features[j].fit.n_obs >= AR_ORDER + 3

\* C10: every (response, regressor) pair used in a fit is the first
\* difference of a quarter and that of the quarter immediately before it.
C10_RegressorIsPreviousQuarter ==
    pc = "done" =>
        \A j \in 1..Len(design) :
            \A k \in 1..Len(design[j]) :
                Ordinal(design[j][k][2]) = Ordinal(design[j][k][1]) - AR_ORDER

\* C11: estimate_ar_features never ends in an exception: pairs that trigger a
\* skip condition are left out and the call returns a feature table, an
\* empty one when every pair of the panel is skipped.
C11_DegradesByOmission ==
    /\ pc # "failed"
    /\ pc = "done" =>
          \A t \in {panel[i].ticker : i \in 1..Len(panel)}, ratio \in RatioNameSet :
              ~NoSkipCondition(t, ratio) => RowsFor(t, ratio) = {}

-----------------------------------------------------------------------------
(* Properties of the loader (LoadSpec) *)

\* the calendar quarter of a date, as (year, quarter of the year)
CalendarQuarter(date) == <<date.year, ((date.month - 1) \div 3) + 1>>

\* C12: the table returned by _load_source has one row per calendar quarter
\* at most, only quarters of the years YEAR_START..YEAR_END, and for every
\* quarter with readable records in the window the row retained is one with
\* the latest date among them, whatever the order of the records in the file.
C12_OneRowPerQuarterLatestDate ==
    pc = "returned" =>
        \A src \in Sources :
            sources[src].kind = "df" =>
                LET k == kept_rows[src]
                IN  /\ \A i, j \in 1..Len(k) :
                          i # j => CalendarQuarter(k[i].rec.date) # CalendarQuarter(k[j].rec.date)
                    /\ \A i \in 1..Len(k) :
                          /\ k[i].rec \in SeqSet(files[src].rows)
                          /\ k[i].rec.date.ok
                          /\ k[i].rec.date.year \in YEAR_START..YEAR_END
                    /\ \A r \in SeqSet(files[src].rows) :
                          (r.date.ok /\ r.date.year \in YEAR_START..YEAR_END) =>
                              \E i \in 1..Len(k) :
                                  /\ CalendarQuarter(k[i].rec.date) = CalendarQuarter(r.date)
                                  /\ DateKey(k[i].rec.date) >= DateKey(r.date)
                    /\ Cardinality(DOMAIN sources[src].data) = Len(k)
                    /\ \A i \in 1..Len(k) :
                          LET q == PeriodOf(k[i].rec.date.year,
                                            CalendarQuarter(k[i].rec.date)[2])
                          IN  /\ q \in DOMAIN sources[src].data
                              /\ \A c \in Columns(src) :
                                    sources[src].data[q][c] = k[i].rec.cols[c].val

\* a file whose first record is the latest filing of its quarter, followed
\* by an earlier one; the first record is the one retained
C12_Witness ==
    /\ pc = "returned"
    /\ \E src \in Sources :
          /\ sources[src].kind = "df"
          /\ Len(files[src].rows) >= 2
          /\ files[src].rows[1].date.ok
          /\ files[src].rows[2].date.ok
          /\ CalendarQuarter(files[src].rows[1].date) = CalendarQuarter(files[src].rows[2].date)
          /\ DateKey(files[src].rows[1].date) > DateKey(files[src].rows[2].date)
          /\ \E i \in 1..Len(kept_rows[src]) : kept_rows[src][i].rec = files[src].rows[1]

=============================================================================
